---- MODULE Spec2Model ----
(***************************************************************************)
(* A model of the RAG helper of src/services/geminiService.ts: the vector  *)
(* math helpers, MockVectorStore.add_documents, similarity_search and      *)
(* chunkText.                                                              *)
(*                                                                         *)
(* A string is a sequence of one-character strings.  A similarity is the   *)
(* exact rational [num, den] (den > 0) of the quotient the code computes;  *)
(* the embeddings of the model have integer magnitudes, so Math.sqrt, the  *)
(* products and the sums of lines 49-63 are exact in IEEE doubles and the  *)
(* one rounding (the division) keeps the order and the equalities of the   *)
(* rationals compared here.                                                *)
(***************************************************************************)
EXTENDS Integers, Sequences, FiniteSets, TLC

\* ------------------------------------------------------------------ bounds

\* add_documents calls that may be issued in one run
NumCalls == 3
\* longest list of texts passed to one add_documents call
MaxTexts == 2
\* largest k passed to similarity_search (the smallest is -1)
MaxK == 3
\* number of words of the long document of the model
LongWords == 181

\* -------------------------------------------------------------------- state

VARIABLES
    documents,      \* MockVectorStore.documents
    isProcessing,   \* MockVectorStore.isProcessing
    calls,          \* per add_documents call: where it is and, while it runs,
                    \* its argument and the index of the text and of the chunk
                    \* it is at
    ret,            \* the value the last similarity_search returned, with its
                    \* arguments; cleared by the next step of anything else
    chunked,        \* the value the last call of chunkText returned, with its
                    \* arguments
    hist,           \* an observer of call 1, for the claims that compare the
                    \* store after two calls; it reads and never steers, and
                    \* is switched on in TwiceSpec only
    controls        \* the topic suggestions of the Controls component: its
                    \* state hooks, its props, and where each call of
                    \* handleTopicFocus is

\* ------------------------------------------------------------ small helpers

Min(a, b) == IF a < b THEN a ELSE b
Max(a, b) == IF a > b THEN a ELSE b

\* Array.prototype.slice(start, end) with 0-based start >= 0 and an end that
\* may be negative (counted from the end) or beyond the length
slice(arr, start, end) ==
    LET n == Len(arr)
        e == IF end < 0 THEN Max(n + end, 0) ELSE Min(end, n)
    IN  IF start >= e THEN << >> ELSE SubSeq(arr, start + 1, e)

\* ------------------------------------------------------------- vector math

RECURSIVE SumTo(_, _)
SumTo(f, n) == IF n = 0 THEN 0 ELSE f[n] + SumTo(f, n - 1)

\* Math.sqrt on the perfect squares the model's vectors produce
Sqrt(n) == CHOOSE r \in 0..n : r * r = n

\* the guard of line 50 left out, for a vecA that is the shorter one: the
\* products of line 51 over the indices of vecA
dotProductPrefix(vecA, vecB) ==
    LET n == Min(Len(vecA), Len(vecB))
    IN  SumTo([i \in 1..n |-> vecA[i] * vecB[i]], n)

dotProduct(vecA, vecB) ==
    IF Len(vecA) # Len(vecB) THEN 0
    ELSE SumTo([i \in 1..Len(vecA) |-> vecA[i] * vecB[i]], Len(vecA))

magnitude(vec) == Sqrt(SumTo([i \in 1..Len(vec) |-> vec[i] * vec[i]], Len(vec)))

\* the guard of line 61 left out: the quotient of line 62 whatever the
\* magnitudes, 0 / 0 for a zero vector
cosineSimilarityUnguarded(vecA, vecB) ==
    [num |-> dotProduct(vecA, vecB), den |-> magnitude(vecA) * magnitude(vecB)]

cosineSimilarity(vecA, vecB) ==
    LET magA == magnitude(vecA)
        magB == magnitude(vecB)
    IN  IF magA = 0 \/ magB = 0 THEN [num |-> 0, den |-> 1]
        ELSE [num |-> dotProduct(vecA, vecB), den |-> magA * magB]

\* ---------------------------------------------------------------- chunkText

WhiteSpace == {" ", "\n"}

\* text.replace(/#/g, '')
StripHashes(text) == SelectSeq(text, LAMBDA ch : ch # "#")

\* .split(/\s+/).filter(w => w.length > 0): the words are the maximal runs of
\* characters that are not white space.  WordBounds lists, in order, the first
\* and the last position of every such run of s within lo..hi (halving the
\* range, which keeps the evaluation shallow on long texts)
IsWordStart(s, i) == s[i] \notin WhiteSpace /\ (i = 1 \/ s[i - 1] \in WhiteSpace)
IsWordEnd(s, i) == s[i] \notin WhiteSpace /\ (i = Len(s) \/ s[i + 1] \in WhiteSpace)

RECURSIVE WordBounds(_, _, _)
WordBounds(s, lo, hi) ==
    IF lo > hi THEN << >>
    ELSE IF lo = hi
         THEN (IF IsWordStart(s, lo) THEN <<lo>> ELSE << >>)
              \o (IF IsWordEnd(s, lo) THEN <<lo>> ELSE << >>)
         ELSE WordBounds(s, lo, (lo + hi) \div 2) \o WordBounds(s, (lo + hi) \div 2 + 1, hi)

SplitWords(s) ==
    LET b == WordBounds(s, 1, Len(s))
    IN  [j \in 1..(Len(b) \div 2) |-> SubSeq(s, b[2 * j - 1], b[2 * j])]

Words(text) == SplitWords(StripHashes(text))

\* words.join(' '), of the words lo..hi of ws
RECURSIVE JoinRange(_, _, _)
JoinRange(ws, lo, hi) ==
    IF lo > hi THEN << >>
    ELSE IF lo = hi THEN ws[lo]
    ELSE JoinRange(ws, lo, (lo + hi) \div 2) \o <<" ">> \o JoinRange(ws, (lo + hi) \div 2 + 1, hi)

Join(ws) == JoinRange(ws, 1, Len(ws))

\* the overlap added where it is to be subtracted: tokens between two windows
AdvancePastWindow(i, maxWords, overlapWords) == i + maxWords + overlapWords

\* windows that do not overlap
AdvanceWholeWindow(i, maxWords, overlapWords) == i + maxWords

\* i += maxWords - overlapWords
Advance(i, maxWords, overlapWords) == i + maxWords - overlapWords

\* a break that does not ask where i is
BreakAfterTwo(words, i, chunks) == Len(chunks) > 1

\* the condition of the break of line 163, i already advanced
Break(words, i, chunks) == i >= Len(words) /\ Len(chunks) > 1

\* the while loop of chunkText, i 0-based as in the code
RECURSIVE ChunkLoop(_, _, _, _, _)
ChunkLoop(words, i, chunks, maxWords, overlapWords) ==
    IF ~(i < Len(words)) THEN chunks
    ELSE LET end == Min(i + maxWords, Len(words))
             pushed == Append(chunks, Join(slice(words, i, end)))
             next == Advance(i, maxWords, overlapWords)
         IN  IF Break(words, next, pushed) THEN pushed
             ELSE ChunkLoop(words, next, pushed, maxWords, overlapWords)

\* a short text returned as its words joined again
chunkTextRejoined(text, maxWords, overlapWords) ==
    LET words == Words(text)
    IN  IF Len(words) <= maxWords THEN <<Join(words)>>
        ELSE ChunkLoop(words, 0, << >>, maxWords, overlapWords)

\* a chunker that looks at the store: no windows while the store is busy
chunkTextOfStore(text, maxWords, overlapWords) ==
    LET words == Words(text)
    IN  IF Len(words) <= maxWords \/ isProcessing THEN <<text>>
        ELSE ChunkLoop(words, 0, << >>, maxWords, overlapWords)

chunkText(text, maxWords, overlapWords) ==
    LET words == Words(text)
    IN  IF Len(words) <= maxWords THEN <<text>>
        ELSE ChunkLoop(words, 0, << >>, maxWords, overlapWords)

\* the default parameters of chunkText, which add_documents uses
DefaultMaxWords == 100
DefaultOverlapWords == 20

\* -------------------------------------------------------- similarity_search

\* ascending instead of descending
comparatorAscending(a, b) ==
    a.similarity.num * b.similarity.den - b.similarity.num * a.similarity.den

\* the comparator of line 145, (a, b) => b.similarity - a.similarity, scaled
\* by the positive product of the two denominators (the sign is the same)
comparator(a, b) ==
    b.similarity.num * a.similarity.den - a.similarity.num * b.similarity.den

\* an unstable sort: x goes before the elements it ties with
InsertBeforeTies(sorted, x) ==
    LET after == {i \in 1..Len(sorted) : comparator(sorted[i], x) >= 0}
        p == IF after = {} THEN Len(sorted) + 1
             ELSE CHOOSE i \in after : \A j \in after : i <= j
    IN  SubSeq(sorted, 1, p - 1) \o <<x>> \o SubSeq(sorted, p, Len(sorted))

\* Array.prototype.sort is stable: x, the next element in array order, goes
\* before the first element the comparator orders after it
InsertSorted(sorted, x) ==
    LET after == {i \in 1..Len(sorted) : comparator(sorted[i], x) > 0}
        p == IF after = {} THEN Len(sorted) + 1
             ELSE CHOOSE i \in after : \A j \in after : i <= j
    IN  SubSeq(sorted, 1, p - 1) \o <<x>> \o SubSeq(sorted, p, Len(sorted))

RECURSIVE SortPrefix(_, _)
SortPrefix(arr, n) ==
    IF n = 0 THEN << >> ELSE InsertSorted(SortPrefix(arr, n - 1), arr[n])

sort(arr) == SortPrefix(arr, Len(arr))

\* >= instead of >
AtOrAboveThreshold(similarity) == 10 * similarity.num >= 7 * similarity.den

\* item.similarity > 0.7
AboveThreshold(similarity) == 10 * similarity.num > 7 * similarity.den

\* lines 140-148
RankedTexts(docs, queryEmbedding, k) ==
    LET similarities ==
            [i \in 1..Len(docs) |->
                [text |-> docs[i].text,
                 similarity |-> cosineSimilarity(queryEmbedding, docs[i].embedding)]]
        kept == SelectSeq(slice(sort(similarities), 0, k),
                          LAMBDA item : AboveThreshold(item.similarity))
    IN  [i \in 1..Len(kept) |-> kept[i].text]

\* the busy half of the guard of line 136 left out
searchWhileBusy(docs, busy, queryEmbedding, k) ==
    IF Len(docs) = 0 THEN << >>
    ELSE RankedTexts(docs, queryEmbedding, k)

similarity_search(docs, busy, queryEmbedding, k) ==
    IF Len(docs) = 0 \/ busy THEN << >>
    ELSE RankedTexts(docs, queryEmbedding, k)

\* sort() called on this.documents itself: the store is left in ranked order
SortedInPlace(docs, busy, queryEmbedding) ==
    IF Len(docs) = 0 \/ busy THEN docs
    ELSE LET ranked == sort([i \in 1..Len(docs) |->
                 [index |-> i,
                  similarity |-> cosineSimilarity(queryEmbedding, docs[i].embedding)]])
         IN  [i \in 1..Len(docs) |-> docs[ranked[i].index]]

\* this.documents after similarity_search: line 140 maps it to a new array,
\* and the sort of line 145, which sorts in place, is called on that array
SearchLeaves(docs, busy, queryEmbedding) == docs

\* ------------------------------------------------------------------- inputs

ShortText == <<"#", "a">>
\* LongWords times the word "a", separated by single spaces
LongText == [i \in 1..(2 * LongWords - 1) |-> IF i % 2 = 1 THEN "a" ELSE " "]
Texts == {ShortText, LongText}
TextLists == UNION {[1..n -> Texts] : n \in 0..MaxTexts}

\* what the embedding interface may return; every magnitude is an integer
Embeddings == {<<10, 0, 0, 0>>, <<7, 1, 1, 7>>, <<8, 6, 0, 0>>, <<0, 0, 0, 0>>, <<5>>}
\* the two of them it returns in the runs of add_documents
StubEmbeddings == {<<10, 0, 0, 0>>, <<7, 1, 1, 7>>}
Queries == Embeddings \cup {<<-10, 0, 0, 0>>}
Ks == (-1)..MaxK

Calls == 1..NumCalls

\* ------------------------------------------------------ values of the state

vars == <<documents, isProcessing, calls, ret, chunked, hist, controls>>

\* pc is "idle" (not called yet), "await" (suspended at line 117), "returned",
\* "dropped" (returned at line 108) or "threw"
CallAt(pc) == [pc |-> pc, texts |-> << >>, ti |-> 0, ci |-> 0]
NoRet == [called |-> FALSE, q |-> << >>, k |-> 0, result |-> << >>]
NoChunked ==
    [called |-> FALSE, raw |-> << >>, text |-> << >>, maxWords |-> 0, overlapWords |-> 0,
     chunks |-> << >>]

\* calls of handleTopicFocus that may be made in one run
NumFocus == 2

\* the generationType and persona props, taken together
Configs == {"post", "poll"}

\* the Controls component after its first render: the useState initial values
\* of lines 197-202, as the effect of lines 211-214 leaves them; fetched is the
\* fetchedConfig ("null" when none), error the suggestionsError
Mounted ==
    [suggestions |-> << >>, loading |-> FALSE, visible |-> FALSE,
     fetched |-> "null", error |-> "null", config |-> "post",
     focus |-> [h \in 1..NumFocus |->
                  [pc |-> "idle", request |-> "none", timer |-> "none", config |-> "null"]]]

\* the observer: the argument of call 1, whether one of its embedding calls was
\* rejected, and the store as call 1 left it
NoHist == [tracking |-> FALSE, texts |-> << >>, failed |-> FALSE, over |-> FALSE, once |-> << >>]

\* hist after a step of call c that was given texts (rejected: the step is a
\* rejected embedding call); to be read once calls' and documents' are set
Observed(c, texts, rejected) ==
    IF ~hist.tracking \/ c # 1 THEN hist
    ELSE [tracking |-> TRUE,
          texts |-> texts,
          failed |-> hist.failed \/ rejected,
          over |-> calls'[1].pc # "await",
          once |-> IF calls'[1].pc # "await" THEN documents' ELSE << >>]

Init ==
    /\ documents = << >>
    /\ isProcessing = FALSE
    /\ calls = [c \in Calls |-> CallAt("idle")]
    /\ ret = NoRet
    /\ chunked = NoChunked
    /\ hist = NoHist
    /\ controls = Mounted

\* ------------------------------------------------------------ add_documents

\* line 112, this.chunkText(text), for the texts of the model
chunksOf == [t \in Texts |-> chunkText(t, DefaultMaxWords, DefaultOverlapWords)]

\* the guard of line 108 left out
RejectsNever(busy) == FALSE

\* line 108: if (this.isProcessing) return;
Rejects(busy) == busy

\* the duplicate check of line 115 left out
NeverDuplicate(docs, chunk) == FALSE

\* line 115: this.documents.some(doc => doc.text === chunk)
IsDuplicate(docs, chunk) == \E i \in 1..Len(docs) : docs[i].text = chunk

\* the flag not cleared on the way out
StuckFlag == TRUE

\* line 125, the value the finally block leaves in isProcessing
ReleasedFlag == FALSE

\* a catch around the inner loop instead of around the one chunk: the rest of
\* the text's chunks are skipped
CatchAndBreak(rec) == [rethrow |-> FALSE, ti |-> rec.ti + 1, ci |-> 1]

\* a catch that logs and rethrows
CatchAndRethrow(rec) == [rethrow |-> TRUE, ti |-> rec.ti, ci |-> rec.ci]

\* lines 119-121: the catch logs and the inner loop goes on with the next
\* chunk; nothing is rethrown
CatchEmbedError(rec) == [rethrow |-> FALSE, ti |-> rec.ti, ci |-> rec.ci + 1]

\* lines 111-115: from chunk ci of text ti on, the first chunk that is not
\* stored yet; ti = Len(texts) + 1 when the loops run out
RECURSIVE NextChunk(_, _, _, _)
NextChunk(docs, texts, ti, ci) ==
    IF ti > Len(texts) THEN [ti |-> ti, ci |-> 0]
    ELSE IF ci > Len(chunksOf[texts[ti]]) THEN NextChunk(docs, texts, ti + 1, 1)
    ELSE IF IsDuplicate(docs, chunksOf[texts[ti]][ci]) THEN NextChunk(docs, texts, ti, ci + 1)
    ELSE [ti |-> ti, ci |-> ci]

\* the loops run from (ti, ci) up to the next await of line 117, or to the
\* end, where the finally block clears the flag and the call returns
RunLoops(c, texts, docs, busy, ti, ci) ==
    LET p == NextChunk(docs, texts, ti, ci)
    IN  IF p.ti > Len(texts)
        THEN /\ calls' = [calls EXCEPT ![c] = CallAt("returned")]
             /\ isProcessing' = ReleasedFlag
        ELSE /\ calls' = [calls EXCEPT ![c] =
                    [pc |-> "await", texts |-> texts, ti |-> p.ti, ci |-> p.ci]]
             /\ isProcessing' = busy

\* the return of line 108 placed inside the try: the finally clears the flag
DropReleasesFlag(busy) == FALSE

\* the flag after the return of line 108, which stands before the try of line
\* 110: the finally of lines 124-126 is not run
FlagAfterDrop(busy) == busy

\* a caller calls add_documents(texts); calls are numbered in the order issued
AddDocuments(c, texts) ==
    /\ calls[c].pc = "idle"
    /\ \A d \in 1..(c - 1) : calls[d].pc # "idle"
    /\ IF Rejects(isProcessing)
       THEN /\ calls' = [calls EXCEPT ![c] = CallAt("dropped")]
            /\ isProcessing' = FlagAfterDrop(isProcessing)
       ELSE RunLoops(c, texts, documents, TRUE, 1, 1)
    /\ UNCHANGED documents
    /\ ret' = NoRet
    /\ UNCHANGED chunked
    /\ hist' = Observed(c, texts, FALSE)
    /\ UNCHANGED controls

\* the new entry put in front
unshift(docs, entry) == <<entry>> \o docs

\* this.documents.push(entry) of line 118
push(docs, entry) == Append(docs, entry)

\* a catch that stores the chunk without an embedding
FailureRemembered(docs, chunk) == push(docs, [text |-> chunk, embedding |-> << >>])

\* this.documents after the catch of lines 119-121, which logs and nothing
\* else
AfterCatch(docs, chunk) == docs

\* the chunk whose embedding call c is waiting for
PendingChunk(c) == chunksOf[calls[c].texts[calls[c].ti]][calls[c].ci]

\* generateEmbeddings resolves with emb: line 118 and on
EmbedResolve(c, emb) ==
    /\ calls[c].pc = "await"
    /\ LET docs == push(documents, [text |-> PendingChunk(c), embedding |-> emb])
       IN  /\ documents' = docs
           /\ RunLoops(c, calls[c].texts, docs, isProcessing, calls[c].ti, calls[c].ci + 1)
    /\ ret' = NoRet
    /\ UNCHANGED chunked
    /\ hist' = Observed(c, calls[c].texts, FALSE)
    /\ UNCHANGED controls

\* generateEmbeddings rejects: lines 119-121 and on
EmbedReject(c) ==
    /\ calls[c].pc = "await"
    /\ LET h == CatchEmbedError(calls[c])
           docs == AfterCatch(documents, PendingChunk(c))
       IN  /\ documents' = docs
           /\ IF h.rethrow
              THEN /\ calls' = [calls EXCEPT ![c] = CallAt("threw")]
                   /\ isProcessing' = ReleasedFlag
              ELSE RunLoops(c, calls[c].texts, docs, isProcessing, h.ti, h.ci)
    /\ ret' = NoRet
    /\ UNCHANGED chunked
    /\ hist' = Observed(c, calls[c].texts, TRUE)
    /\ UNCHANGED controls

\* a caller calls similarity_search(q, k)
Search(q, k) ==
    /\ ret' = [called |-> TRUE, q |-> q, k |-> k,
               result |-> similarity_search(documents, isProcessing, q, k)]
    /\ documents' = SearchLeaves(documents, isProcessing, q)
    /\ UNCHANGED <<isProcessing, calls, chunked, hist, controls>>

\* the steps of add_documents calls
AddNext ==
    \/ \E c \in Calls, texts \in TextLists : AddDocuments(c, texts)
    \/ \E c \in Calls, emb \in StubEmbeddings : EmbedResolve(c, emb)
    \/ \E c \in Calls : EmbedReject(c)

\* the store under concurrent add_documents calls and searches
Next ==
    \/ AddNext
    \/ \E q \in StubEmbeddings : Search(q, MaxK)

Spec == Init /\ [][Next]_vars

\* every embedding call settles: the premise of the liveness claims.  The
\* searches, which change neither the store nor a call, are left out
FairSpec ==
    /\ Init
    /\ [][AddNext]_vars
    /\ \A c \in Calls :
          WF_vars(EmbedReject(c) \/ \E emb \in StubEmbeddings : EmbedResolve(c, emb))

\* ------------------------------------------ the same add_documents call twice

\* the empty store, the observer of call 1 switched on
TwiceInit ==
    /\ documents = << >>
    /\ isProcessing = FALSE
    /\ calls = [c \in Calls |-> CallAt("idle")]
    /\ ret = NoRet
    /\ chunked = NoChunked
    /\ hist = [NoHist EXCEPT !.tracking = TRUE]
    /\ controls = Mounted

\* the first call
AddOnce == \E texts \in TextLists : AddDocuments(1, texts)

\* the second call, of the same texts, made once the first has completed
AddAgain == hist.over /\ AddDocuments(2, hist.texts)

TwiceNext ==
    \/ AddOnce
    \/ AddAgain
    \/ \E c \in Calls, emb \in StubEmbeddings : EmbedResolve(c, emb)
    \/ \E c \in Calls : EmbedReject(c)

TwiceSpec == TwiceInit /\ [][TwiceNext]_vars

\* ------------------------------------------------------ calls of chunkText

\* words in one text given to chunkText, and the largest maxWords
MaxRawWords == 5
MaxMaxWords == 4

\* the texts: up to MaxRawWords of these words ("#" is a word that is no token,
\* "#b" one that is the token "b"), one of the separators between each two
RawWords == {<<"a">>, <<"b">>, <<"#", "b">>, <<"#">>}
Separators == {<<" ">>, <<"\n", " ">>}

RECURSIVE Render(_, _, _)
Render(raw, sep, n) ==
    IF n = 0 THEN << >>
    ELSE IF n = 1 THEN raw[1]
    ELSE Render(raw, sep, n - 1) \o sep \o raw[n]

\* a caller about to call chunkText(text, maxWords, overlapWords), with
\* overlapWords < maxWords as the function asks of its callers; the store
\* either new, or holding an entry with call 1 suspended on the embedding of
\* ShortText
ChunkInit ==
    /\ isProcessing \in BOOLEAN
    /\ documents = IF isProcessing
                   THEN <<[text |-> <<"a">>, embedding |-> <<10, 0, 0, 0>>]>>
                   ELSE << >>
    /\ calls = [c \in Calls |->
          IF c = 1 /\ isProcessing
          THEN [pc |-> "await", texts |-> <<ShortText>>, ti |-> 1, ci |-> 1]
          ELSE CallAt("idle")]
    /\ ret = NoRet
    /\ hist = NoHist
    /\ controls = Mounted
    /\ \E n \in 0..MaxRawWords : \E raw \in [1..n -> RawWords] : \E sep \in Separators :
       \E maxWords \in 1..MaxMaxWords : \E overlapWords \in 0..(maxWords - 1) :
          chunked = [called |-> FALSE, raw |-> raw, text |-> Render(raw, sep, n),
                     maxWords |-> maxWords, overlapWords |-> overlapWords,
                     chunks |-> << >>]

\* the call, and its return value
Chunk ==
    /\ ~chunked.called
    /\ chunked' = [chunked EXCEPT
          !.called = TRUE,
          !.chunks = chunkText(chunked.text, chunked.maxWords, chunked.overlapWords)]
    /\ UNCHANGED <<documents, isProcessing, calls, ret, hist, controls>>

ChunkNext == Chunk

ChunkSpec == ChunkInit /\ [][ChunkNext]_vars

\* ------------------------------------------------- searches of a given store

\* entries stored in one store of the searches
MaxDocs == 3

\* the text of entry i: i times "a", one word, so a chunk
StoredText(i) == [j \in 1..i |-> "a"]

\* a store add_documents can build: distinct texts, any embeddings; either at
\* rest, or with call 1 suspended on the embedding of ShortText
SearchInit ==
    /\ \E n \in 0..MaxDocs : \E e \in [1..n -> Embeddings] :
          documents = [i \in 1..n |-> [text |-> StoredText(i), embedding |-> e[i]]]
    /\ isProcessing \in BOOLEAN
    /\ calls = [c \in Calls |->
          IF c = 1 /\ isProcessing
          THEN [pc |-> "await", texts |-> <<ShortText>>, ti |-> 1, ci |-> 1]
          ELSE CallAt("idle")]
    /\ ret = NoRet
    /\ chunked = NoChunked
    /\ hist = NoHist
    /\ controls = Mounted

SearchNext == \E q \in Queries, k \in Ks : Search(q, k)

SearchSpec == SearchInit /\ [][SearchNext]_vars

\* --------------------------------- handleTopicFocus of the Controls component

\* what getTopicSuggestions may resolve with, and what it may reject with: an
\* Error with a message, an Error without one, a value that is no Error
Suggestions == {<< >>, <<"t1">>, <<"t1", "t2">>}
Rejections ==
    {[isError |-> TRUE, message |-> "request failed"],
     [isError |-> TRUE, message |-> ""],
     [isError |-> FALSE, message |-> ""]}

\* what the timer of lines 235-237 rejects with
TimedOut == [isError |-> TRUE, message |-> "Request timed out after 30 seconds."]

\* a race that never counts as settled: whatever settles later is taken too
raceStillOpen(invocation) == FALSE

\* Promise.race of line 239 is settled once one of its two promises is; what
\* the other one does afterwards goes nowhere
raceSettled(invocation) ==
    invocation.request \in {"resolved", "rejected"} \/ invocation.timer = "fired"

\* lines 241-242, then the finally of line 251
Succeed(h, newSuggestions) ==
    [controls EXCEPT !.suggestions = newSuggestions,
                     !.fetched = controls.focus[h].config,
                     !.loading = FALSE,
                     !.focus[h].pc = "returned"]

\* the catch of lines 244-250, then the finally of line 251
Catch(h, error) ==
    [controls EXCEPT !.error = IF ~error.isError THEN controls.error
                                ELSE IF error.message # "" THEN error.message
                                ELSE "Failed to load suggestions.",
                     !.suggestions = << >>,
                     !.loading = FALSE,
                     !.focus[h].pc = "returned"]

StoreUntouched == UNCHANGED <<documents, isProcessing, calls, ret, chunked, hist>>

\* the topic field gets the focus: lines 217-239, up to the await
TopicFocus(h) ==
    /\ controls.focus[h].pc = "idle"
    /\ \A d \in 1..(h - 1) : controls.focus[d].pc # "idle"
    /\ controls' =
          IF controls.fetched = controls.config /\ Len(controls.suggestions) > 0
          THEN [controls EXCEPT !.visible = TRUE, !.error = "null",
                                !.focus[h].pc = "returned"]
          ELSE [controls EXCEPT !.visible = TRUE, !.error = "null",
                                !.loading = TRUE, !.suggestions = << >>,
                                !.focus[h] = [pc |-> "await", request |-> "pending",
                                              timer |-> "armed", config |-> controls.config]]
    /\ StoreUntouched

\* the request of call h resolves
RequestResolves(h, newSuggestions) ==
    /\ controls.focus[h].request = "pending"
    /\ controls' =
          [(IF raceSettled(controls.focus[h]) THEN controls ELSE Succeed(h, newSuggestions))
              EXCEPT !.focus[h].request = "resolved"]
    /\ StoreUntouched

\* the request of call h rejects
RequestRejects(h, error) ==
    /\ controls.focus[h].request = "pending"
    /\ controls' =
          [(IF raceSettled(controls.focus[h]) THEN controls ELSE Catch(h, error))
              EXCEPT !.focus[h].request = "rejected"]
    /\ StoreUntouched

\* the timer of call h fires; the timers all run 30 seconds, so in the order
\* they were set
TimerFires(h) ==
    /\ controls.focus[h].timer = "armed"
    /\ \A d \in 1..(h - 1) : controls.focus[d].timer # "armed"
    /\ controls' =
          [(IF raceSettled(controls.focus[h]) THEN controls ELSE Catch(h, TimedOut))
              EXCEPT !.focus[h].timer = "fired"]
    /\ StoreUntouched

\* generationType or persona changes: the effect of lines 211-214
ConfigChanges(config) ==
    /\ config # controls.config
    /\ controls' = [controls EXCEPT !.config = config, !.suggestions = << >>,
                                    !.fetched = "null"]
    /\ StoreUntouched

TopicNext ==
    \/ \E h \in 1..NumFocus : TopicFocus(h)
    \/ \E h \in 1..NumFocus, newSuggestions \in Suggestions : RequestResolves(h, newSuggestions)
    \/ \E h \in 1..NumFocus, error \in Rejections : RequestRejects(h, error)
    \/ \E h \in 1..NumFocus : TimerFires(h)
    \/ \E config \in Configs : ConfigChanges(config)

TopicSpec == Init /\ [][TopicNext]_vars

\* ================================================================= claims

\* the two chunk texts of LongText: its first window (twice) and its last
HeadChunk == chunksOf[LongText][1]
TailChunk == chunksOf[LongText][Len(chunksOf[LongText])]

StoredTexts == [i \in 1..Len(documents) |-> documents[i].text]
InFlight == {c \in Calls : calls[c].pc = "await"}

\* C1: in every reachable state of the store no two entries have the same text
C1_NoDuplicateTexts ==
    \A i, j \in 1..Len(documents) : i # j => documents[i].text # documents[j].text

\* call 1 stored the first chunk of LongText and then ShortText; call 2, given
\* LongText alone, found both of its first two chunks stored and waits for the
\* embedding of the third
C1_Witness ==
    /\ StoredTexts = <<HeadChunk, ShortText>>
    /\ calls[2] = [pc |-> "await", texts |-> <<LongText>>, ti |-> 1, ci |-> 3]

\* C2: an add_documents call issued while the busy flag is true is dropped: it
\* returns at once, leaves the store and the flag alone, never suspends on an
\* embedding call and never does anything afterwards; every append is the step
\* of a call that was suspended on an embedding call, so none is a dropped
\* call's
C2_DroppedIsNoOp ==
    [][/\ \A c \in Calls :
            /\ (calls[c].pc = "idle" /\ calls'[c].pc # "idle" /\ isProcessing)
                  => /\ calls'[c] = CallAt("dropped")
                     /\ UNCHANGED <<documents, isProcessing>>
                     /\ \A d \in Calls \ {c} : calls'[d] = calls[d]
            /\ calls[c].pc = "dropped" => calls'[c] = calls[c]
       /\ documents' # documents
             => \E c \in Calls : calls[c].pc = "await" /\ calls'[c] # calls[c]
      ]_vars

\* call 2 was dropped while call 1 was in flight, and call 1 has since stored
\* its chunks and returned
C2_Witness ==
    /\ calls[1].pc = "returned"
    /\ calls[2].pc = "dropped"
    /\ calls[3].pc = "idle"
    /\ Len(documents) = 3

\* C3: at most one call is between setting and clearing the busy flag, the flag
\* is true while it is, and every append is made by that call with the flag
\* true, no other call moving in the same step
C3_OneWriter ==
    /\ [](Cardinality(InFlight) <= 1 /\ (InFlight # {} => isProcessing))
    /\ [][documents' # documents
            => /\ isProcessing
               /\ \E c \in Calls :
                    /\ InFlight = {c}
                    /\ InFlight' \subseteq {c}
                    /\ \A d \in Calls \ {c} : calls'[d] = calls[d]
         ]_vars

\* call 1 is in flight and has appended two entries, calls 2 and 3 were dropped
C3_Witness ==
    /\ calls[1].pc = "await"
    /\ calls[2].pc = "dropped"
    /\ calls[3].pc = "dropped"
    /\ Len(documents) = 2

\* C4: when every embedding call settles, an accepted call returns, the busy
\* flag is false in the state it returns in, and a call issued when every call
\* before it is over is accepted
C4_CompletesAndReleases ==
    /\ \A c \in Calls : (calls[c].pc = "await") ~> (calls[c].pc = "returned")
    /\ [][\A c \in Calls :
            /\ (calls[c].pc # "returned" /\ calls'[c].pc = "returned") => ~isProcessing'
            /\ (/\ calls[c].pc = "idle"
                /\ calls'[c].pc # "idle"
                /\ \A d \in 1..(c - 1) : calls[d].pc \in {"returned", "dropped"})
                  => calls'[c].pc \in {"await", "returned"}
         ]_vars

\* call 1 returned with the last chunk of LongText stored and the embeddings of
\* its first two chunks failed; call 2, issued after it, was accepted
C4_Witness ==
    /\ calls[1].pc = "returned"
    /\ calls[2] = [pc |-> "await", texts |-> <<ShortText>>, ti |-> 1, ci |-> 1]
    /\ StoredTexts = <<TailChunk>>
    /\ ~(\E c \in Calls : calls[c].pc = "dropped")

\* C5: similarity_search returns the empty sequence whenever the store is
\* empty or the busy flag is true
C5_EmptyWhenBusyOrEmpty ==
    (ret.called /\ (Len(documents) = 0 \/ isProcessing)) => ret.result = << >>

\* a search with k >= 1 during an add_documents call, for the very embedding
\* of a stored entry, returned nothing
C5_Witness ==
    /\ ret.called
    /\ isProcessing
    /\ InFlight # {}
    /\ ret.k >= 1
    /\ \E i \in 1..Len(documents) : documents[i].embedding = ret.q /\ ret.q = <<10, 0, 0, 0>>
    /\ ret.result = << >>

\* the chunks of a call's texts, as <<text index, chunk index>>, in the order
\* the loops reach them
Positions(texts) ==
    UNION {{<<ti, ci>> : ci \in 1..Len(chunksOf[texts[ti]])} : ti \in 1..Len(texts)}
Before(p, r) == p[1] < r[1] \/ (p[1] = r[1] /\ p[2] < r[2])
ChunkAt(texts, p) == chunksOf[texts[p[1]]][p[2]]

\* the chunks of call c after the one it waits for whose text is not stored
Remaining(c) ==
    {p \in Positions(calls[c].texts) :
        /\ Before(<<calls[c].ti, calls[c].ci>>, p)
        /\ \A i \in 1..Len(documents) : documents[i].text # ChunkAt(calls[c].texts, p)}

\* C6: when the embedding call of a chunk fails nothing is appended, and the
\* call goes on with the first later chunk, of the same text or of a later
\* one, whose text is not stored (returning only when there is none); when an
\* embedding call succeeds that chunk is appended with the embedding returned
C6_FailureSkipsOneChunk ==
    [][\A c \in Calls :
          /\ (calls[c].pc = "await" /\ calls'[c] # calls[c] /\ documents' = documents)
                => IF Remaining(c) = {}
                   THEN calls'[c].pc = "returned"
                   ELSE /\ calls'[c].pc = "await"
                        /\ calls'[c].texts = calls[c].texts
                        /\ <<calls'[c].ti, calls'[c].ci>> \in Remaining(c)
                        /\ \A p \in Remaining(c) :
                              ~Before(p, <<calls'[c].ti, calls'[c].ci>>)
          /\ (calls[c].pc = "await" /\ documents' # documents)
                => \E emb \in Embeddings :
                      documents' = Append(documents,
                          [text |-> ChunkAt(calls[c].texts, <<calls[c].ti, calls[c].ci>>),
                           embedding |-> emb])
      ]_vars

\* the embeddings of the first two chunks of LongText failed, its third chunk
\* was stored, and the call is now at the next text
C6_Witness ==
    /\ calls[1] = [pc |-> "await", texts |-> <<LongText, ShortText>>, ti |-> 2, ci |-> 1]
    /\ calls[2].pc = "idle"
    /\ StoredTexts = <<TailChunk>>

\* C7: add_documents never raises: no call ends by throwing, whatever the
\* texts and whichever embedding calls fail
C7_NeverThrows == \A c \in Calls : calls[c].pc # "threw"

\* the only call made has returned after the embeddings of the first two
\* chunks of LongText failed
C7_Witness ==
    /\ calls[1].pc = "returned"
    /\ calls[2].pc = "idle"
    /\ StoredTexts = <<TailChunk>>

\* ---- cosine similarity stated without square roots, for the search claims

InnerProduct(a, b) ==
    IF Len(a) # Len(b) THEN 0 ELSE SumTo([i \in 1..Len(a) |-> a[i] * b[i]], Len(a))
NormSq(a) == SumTo([i \in 1..Len(a) |-> a[i] * a[i]], Len(a))

\* cos(q, e) > 0.70: the inner product is positive and its square exceeds
\* 0.49 |q|^2 |e|^2
CosAbove70(q, e) ==
    /\ InnerProduct(q, e) > 0
    /\ 100 * InnerProduct(q, e) * InnerProduct(q, e) > 49 * NormSq(q) * NormSq(e)

\* cos(q, e1) >= cos(q, e2); with |q| > 0 that is d1 / |e1| >= d2 / |e2| for the
\* inner products d1 and d2, and a zero vector has cosine 0
CosGeq(q, e1, e2) ==
    LET zero1 == NormSq(q) = 0 \/ NormSq(e1) = 0
        zero2 == NormSq(q) = 0 \/ NormSq(e2) = 0
        d1 == IF zero1 THEN 0 ELSE InnerProduct(q, e1)
        d2 == IF zero2 THEN 0 ELSE InnerProduct(q, e2)
        m1 == IF zero1 THEN 1 ELSE NormSq(e1)
        m2 == IF zero2 THEN 1 ELSE NormSq(e2)
    IN  IF d1 >= 0 /\ d2 <= 0 THEN TRUE
        ELSE IF d1 < 0 /\ d2 >= 0 THEN FALSE
        ELSE IF d1 >= 0 THEN d1 * d1 * m2 >= d2 * d2 * m1
        ELSE d1 * d1 * m2 <= d2 * d2 * m1

CosEqual(q, e1, e2) == CosGeq(q, e1, e2) /\ CosGeq(q, e2, e1)

\* the stored entries whose similarity to q exceeds 0.70
Above70(q) == {i \in 1..Len(documents) : CosAbove70(q, documents[i].embedding)}

\* every returned text is the text of a stored entry whose similarity to the
\* query exceeds 0.70
ReturnedAreAbove70 ==
    \A j \in 1..Len(ret.result) :
        \E i \in Above70(ret.q) : documents[i].text = ret.result[j]

\* C8 as stated: for any integer k, similarity_search returns no more than k
\* results (none, for a negative k), each the text of an entry whose
\* similarity to the query exceeds 0.70
C8_AtMostK_AnyK ==
    ret.called => (Len(ret.result) <= Max(ret.k, 0) /\ ReturnedAreAbove70)

\* C8 amended: for any integer k >= 0 similarity_search returns no more than k
\* results, and for any integer k each returned text is the text of an entry
\* whose similarity to the query exceeds 0.70
C8_AtMostK ==
    ret.called => ((ret.k >= 0 => Len(ret.result) <= ret.k) /\ ReturnedAreAbove70)

\* k results were returned although more than k entries exceed 0.70; a third
\* entry has similarity 0.70 exactly, and it is not among the results
C8_Witness ==
    /\ ret.called
    /\ ret.k = 1
    /\ Len(ret.result) = 1
    /\ Cardinality(Above70(ret.q)) = 2
    /\ Len(documents) = 3
    /\ ret.q = <<10, 0, 0, 0>>
    /\ \E i \in 1..Len(documents) :
          /\ documents[i].embedding = <<7, 1, 1, 7>>
          /\ \A j \in 1..Len(ret.result) : ret.result[j] # documents[i].text

\* the orders of the store's entries by similarity to q, descending
RankingsBySimilarity(q) ==
    {p \in [1..Len(documents) -> 1..Len(documents)] :
        /\ \A a, b \in 1..Len(documents) : a # b => p[a] # p[b]
        /\ \A a, b \in 1..Len(documents) :
              a < b => CosGeq(q, documents[p[a]].embedding, documents[p[b]].embedding)}

\* result lists, in the order of ranking p, the texts of the entries that are
\* among the first k of p and whose similarity to q exceeds 0.70
IsTopKAbove70(result, p, q, k) ==
    LET firstK == IF k <= 0 THEN << >> ELSE SubSeq(p, 1, Min(k, Len(p)))
        kept == SelectSeq(firstK, LAMBDA i : CosAbove70(q, documents[i].embedding))
    IN  result = [j \in 1..Len(kept) |-> documents[kept[j]].text]

\* C9 as stated: on a non-empty, non-busy store similarity_search(q, k) returns
\* the texts of the entries among the first k of the ranking by similarity
\* whose similarity exceeds 0.70, in ranking order
C9_TopKThenFilter_AnyK ==
    (ret.called /\ Len(documents) > 0 /\ ~isProcessing)
        => \E p \in RankingsBySimilarity(ret.q) : IsTopKAbove70(ret.result, p, ret.q, ret.k)

\* C9 amended: the same, for k >= 0
C9_TopKThenFilter ==
    (ret.called /\ Len(documents) > 0 /\ ~isProcessing /\ ret.k >= 0)
        => \E p \in RankingsBySimilarity(ret.q) : IsTopKAbove70(ret.result, p, ret.q, ret.k)

\* of three entries the two most similar were taken, the second of them did
\* not exceed 0.70, and one text was returned
C9_Witness ==
    /\ ret.called
    /\ ~isProcessing
    /\ ret.k = 2
    /\ Len(documents) = 3
    /\ Cardinality(Above70(ret.q)) = 1
    /\ \E i \in 1..3 : ~CosGeq(ret.q, <<0, 0, 0, 0>>, documents[i].embedding) /\ i \notin Above70(ret.q)
    /\ \E i \in 1..3 : documents[i].embedding = <<0, 0, 0, 0>>
    /\ Len(ret.result) = 1

PositionIn(result, text) == CHOOSE j \in 1..Len(result) : result[j] = text
Returned(text) == \E j \in 1..Len(ret.result) : ret.result[j] = text

\* C10: of two entries with equal similarity to the query, the later inserted
\* is returned only if the earlier inserted is returned too, and then the
\* earlier comes first in the result
C10_TiesInInsertionOrder ==
    ret.called =>
        \A i, j \in 1..Len(documents) :
            (i < j /\ CosEqual(ret.q, documents[i].embedding, documents[j].embedding)
                   /\ Returned(documents[j].text))
                => /\ Returned(documents[i].text)
                   /\ PositionIn(ret.result, documents[i].text)
                        < PositionIn(ret.result, documents[j].text)

\* three entries tie above 0.70 and k = 2: the first two inserted are
\* returned, in insertion order, and the third is not
C10_Witness ==
    /\ ret.called
    /\ ret.k = 2
    /\ Len(documents) = 3
    /\ \A i \in 1..3 : documents[i].embedding = <<8, 6, 0, 0>>
    /\ ret.q = <<10, 0, 0, 0>>
    /\ ret.result = <<documents[1].text, documents[2].text>>

\* C11: similarity_search is read-only and does not suspend: the step in which
\* it is called is the step in which it returns, and that step leaves the
\* entries, their order, the busy flag and every add_documents call as they
\* were, for every store and every input
C11_SearchReadOnly ==
    [][ret'.called =>
          /\ documents' = documents
          /\ isProcessing' = isProcessing
          /\ calls' = calls]_vars

\* a search has returned two texts ranked against their insertion order, from
\* a store that is still in insertion order
C11_Witness ==
    /\ ret.called
    /\ Len(ret.result) >= 2
    /\ Len(documents) >= 2
    /\ ret.result[1] = documents[2].text
    /\ ret.result[2] = documents[1].text

\* ---------------------------------------------------------------- chunkText

\* the tokens of the text rendered from the words raw: each word without its
\* "#" characters, the words that were nothing else left out
Unhashed(word) == SelectSeq(word, LAMBDA ch : ch # "#")
Tokens(raw) ==
    SelectSeq([i \in 1..Len(raw) |-> Unhashed(raw[i])], LAMBDA w : Len(w) > 0)

\* C12: when the token count of text is at most maxWords, chunkText returns the
\* one-element sequence holding text itself, its "#" characters and its white
\* space untouched
C12_ShortTextUnchanged ==
    (chunked.called /\ Len(Tokens(chunked.raw)) <= chunked.maxWords)
        => chunked.chunks = <<chunked.text>>

\* a text of as many tokens as maxWords, with a "#" and a two-character
\* separator in it, came back as it was
C12_Witness ==
    /\ chunked.called
    /\ Len(Tokens(chunked.raw)) = chunked.maxWords
    /\ \E i \in 1..Len(chunked.text) : chunked.text[i] = "#"
    /\ \E i \in 1..Len(chunked.text) : chunked.text[i] = "\n"
    /\ chunked.chunks = <<chunked.text>>

\* the call chunked a text of more tokens than maxWords
LongCall == chunked.called /\ Len(Tokens(chunked.raw)) > chunked.maxWords

\* the 0-based index of the first token of the j-th window, j = 1, 2, ...
WindowStart(j) == (j - 1) * (chunked.maxWords - chunked.overlapWords)

\* the end index of the j-th window reaches the token count
ReachesEnd(j) == WindowStart(j) + chunked.maxWords >= Len(Tokens(chunked.raw))

\* C13: for a text of more than maxWords tokens, the first window whose end
\* index reaches the token count is the last chunk: no chunk follows a window
\* that reached the end
C13_NoChunkAfterEnd ==
    LongCall => \A j \in 1..Len(chunked.chunks) : ReachesEnd(j) => j = Len(chunked.chunks)

\* the tokens of a chunk: what stands between its single spaces
ChunkTokens(chunk) ==
    LET spaces == {p \in 1..Len(chunk) : chunk[p] = " "}
        n == Cardinality(spaces) + 1
        space(k) == IF k = 0 THEN 0
                    ELSE IF k = n THEN Len(chunk) + 1
                    ELSE CHOOSE p \in spaces : Cardinality({r \in spaces : r <= p}) = k
    IN  [i \in 1..n |-> SubSeq(chunk, space(i - 1) + 1, space(i) - 1)]

\* the last m tokens of chunk a are the first m tokens of chunk b
SharesTokens(a, b, m) ==
    LET ta == ChunkTokens(a)
        tb == ChunkTokens(b)
    IN  /\ Len(ta) >= m
        /\ Len(tb) >= m
        /\ SubSeq(ta, Len(ta) - m + 1, Len(ta)) = SubSeq(tb, 1, m)

\* C14: for a text of more than maxWords tokens and overlapWords < maxWords,
\* every chunk has at most maxWords tokens, and of every two consecutive
\* chunks, the pair that ends in the final chunk excepted, the last
\* overlapWords tokens of the first are the first overlapWords tokens of the
\* second
C14_BoundedAndOverlapping ==
    LongCall =>
        /\ \A j \in 1..Len(chunked.chunks) :
              Len(ChunkTokens(chunked.chunks[j])) <= chunked.maxWords
        /\ \A j \in 1..(Len(chunked.chunks) - 2) :
              SharesTokens(chunked.chunks[j], chunked.chunks[j + 1], chunked.overlapWords)

\* the tokens lo..(hi - 1), 0-based, of the text, with one space between each two
RECURSIVE SpaceJoined(_, _, _)
SpaceJoined(tokens, lo, hi) ==
    IF lo >= hi THEN << >>
    ELSE IF lo + 1 = hi THEN tokens[hi]
    ELSE SpaceJoined(tokens, lo, hi - 1) \o <<" ">> \o tokens[hi]

\* C17: for a text of n > maxWords tokens, the j-th chunk, j = 0, 1, ..., is
\* the tokens at the indices from j * (maxWords - overlapWords) up to, and
\* without, min(j * (maxWords - overlapWords) + maxWords, n), joined by single
\* spaces, the chunks in increasing j
C17_ChunkIsWindow ==
    LongCall =>
        LET tokens == Tokens(chunked.raw)
            n == Len(tokens)
        IN  \A j \in 1..Len(chunked.chunks) :
               /\ WindowStart(j) < n
               /\ chunked.chunks[j] =
                      SpaceJoined(tokens, WindowStart(j),
                                  IF WindowStart(j) + chunked.maxWords < n
                                  THEN WindowStart(j) + chunked.maxWords ELSE n)

\* four tokens, not all the same, of a text with a "#" between them were cut
\* into three or more windows that overlap
C17_Witness ==
    /\ LongCall
    /\ chunked.overlapWords > 0
    /\ Len(chunked.chunks) >= 3
    /\ Len(Tokens(chunked.raw)) = 4
    /\ \E i, j \in 1..4 : Tokens(chunked.raw)[i] # Tokens(chunked.raw)[j]
    /\ \E i \in 1..Len(chunked.raw) : chunked.raw[i] = <<"#">>

\* the step maxWords - overlapWords of the windows, and the number of windows
\* that start before the n-th token: n / step, rounded up
Step == chunked.maxWords - chunked.overlapWords
WindowCount(n) == (n + Step - 1) \div Step

\* what the inputs of the call, and nothing else, say the chunks are
ChunksOfInputs ==
    LET tokens == Tokens(chunked.raw)
        n == Len(tokens)
    IN  IF n <= chunked.maxWords THEN <<chunked.text>>
        ELSE [j \in 1..WindowCount(n) |->
                 SpaceJoined(tokens, WindowStart(j),
                             IF WindowStart(j) + chunked.maxWords < n
                             THEN WindowStart(j) + chunked.maxWords ELSE n)]

\* C23: for 0 <= overlapWords < maxWords chunkText returns, and what it
\* returns is a sequence of at least one chunk and of no more chunks than the
\* text has tokens (one, for a text of none), that its inputs determine,
\* whatever the store holds and whether it is busy
C23_FiniteAndPure ==
    chunked.called =>
        /\ Len(chunked.chunks) >= 1
        /\ Len(chunked.chunks) <= Len(Tokens(chunked.raw)) + 1
        /\ Len(Tokens(chunked.raw)) > 0 => Len(chunked.chunks) <= Len(Tokens(chunked.raw))
        /\ chunked.chunks = ChunksOfInputs

\* a text of more tokens than maxWords was chunked into several chunks while
\* the store was busy and held an entry
C23_Witness ==
    /\ LongCall
    /\ isProcessing
    /\ Len(documents) = 1
    /\ Len(chunked.chunks) >= 2
    /\ chunked.overlapWords = chunked.maxWords - 1

\* the t-th token of the text, t = 1, 2, ..., stands at its place in the j-th
\* chunk
CoveredBy(t, j) ==
    LET inChunk == ChunkTokens(chunked.chunks[j])
    IN  /\ WindowStart(j) < t
        /\ t <= WindowStart(j) + Len(inChunk)
        /\ inChunk[t - WindowStart(j)] = Tokens(chunked.raw)[t]

\* C26: for a text of more than maxWords tokens and overlapWords < maxWords,
\* every token of the text stands in at least one chunk: no segment of the
\* text, trailing or other, is dropped
C26_EveryTokenInAChunk ==
    LongCall =>
        \A t \in 1..Len(Tokens(chunked.raw)) :
            \E j \in 1..Len(chunked.chunks) : CoveredBy(t, j)

\* five tokens in windows of four that advance by three: the last window
\* holds two tokens, and the last token is in no other
C26_Witness ==
    /\ LongCall
    /\ Len(Tokens(chunked.raw)) = 5
    /\ chunked.maxWords = 4
    /\ chunked.overlapWords = 1
    /\ Len(chunked.chunks) = 2
    /\ Len(ChunkTokens(chunked.chunks[2])) = 2
    /\ CoveredBy(5, 2)
    /\ ~CoveredBy(5, 1)

\* the loop of lines 158-164 without the break of line 163, from the 0-based
\* token index i on
RECURSIVE LoopWithoutBreak(_, _)
LoopWithoutBreak(tokens, i) ==
    IF ~(i < Len(tokens)) THEN << >>
    ELSE <<SpaceJoined(tokens, i,
                       IF i + chunked.maxWords < Len(tokens)
                       THEN i + chunked.maxWords ELSE Len(tokens))>>
         \o LoopWithoutBreak(tokens, i + Step)

TwiceOver == hist.over /\ calls[2].pc = "returned"

C16_AppendOnly ==
    [][/\ Len(documents') >= Len(documents)
       /\ SubSeq(documents', 1, Len(documents)) = documents]_vars

\* three entries were appended one after the other, searches in between or not
C16_Witness == StoredTexts = <<ShortText, HeadChunk, TailChunk>>

\* -------------------------------------------------- embedding calls of a call

\* an entry of the store has the text
Stored(text) == \E i \in 1..Len(documents) : documents[i].text = text

\* C18: an embedding call is made for a chunk only if no entry has its text
\* when the chunk is reached (and the store stays as it is while the call is
\* outstanding, so no entry has it then either); a chunk whose text is stored
\* causes no embedding call and no append: what a step appends is the chunk
\* an embedding call was outstanding for, and nothing else
C18_EmbedOnlyUnstored ==
    /\ [](\A c \in InFlight : ~Stored(PendingChunk(c)))
    /\ [][documents' # documents =>
             \E c \in InFlight :
                /\ Len(documents') = Len(documents) + 1
                /\ documents'[Len(documents')].text = PendingChunk(c)]_vars

\* a call of add_documents([ShortText, LongText]) waits for the embedding of
\* the last chunk of LongText; the first chunks of LongText, whose text was
\* stored before the call came to LongText, were passed over
C18_Witness ==
    \E c \in InFlight :
        /\ calls[c].texts = <<ShortText, LongText>>
        /\ calls[c].ti = 2
        /\ PendingChunk(c) = TailChunk
        /\ StoredTexts = <<HeadChunk, ShortText>>

\* the step issues an embedding call of call c: after it c waits for a chunk it
\* did not wait for before
IssuesEmbedding(c) == calls'[c].pc = "await" /\ calls'[c] # calls[c]

\* C19: at most one embedding call is outstanding at any time; a call issues
\* the embedding call of a chunk only in the step in which its previous one
\* settles, the entry of that one, if any, appended by then and the new chunk a
\* later one; and it issues none while another call waits for one
C19_OneEmbeddingAtATime ==
    /\ [](Cardinality(InFlight) <= 1)
    /\ [][\A c \in Calls : IssuesEmbedding(c) =>
             /\ InFlight \subseteq {c}
             /\ InFlight' = {c}
             /\ calls[c].pc = "await" =>
                   /\ calls'[c].texts = calls[c].texts
                   /\ Before(<<calls[c].ti, calls[c].ci>>, <<calls'[c].ti, calls'[c].ci>>)
                   /\ \/ documents' = documents
                      \/ /\ Len(documents') = Len(documents) + 1
                         /\ documents'[Len(documents')].text = PendingChunk(c)
         ]_vars

\* call 1 waits for its second embedding call, the entry of the first one
\* appended; call 2, issued meanwhile, was dropped and waits for none
C19_Witness ==
    /\ calls[1].pc = "await"
    /\ calls[1].texts = <<LongText>>
    /\ PendingChunk(1) = TailChunk
    /\ StoredTexts = <<HeadChunk>>
    /\ calls[2].pc = "dropped"
    /\ calls[3].pc = "idle"

\* C20: while the embedding call an accepted call waits for has not settled,
\* the busy flag is true and stays true over every step, every add_documents
\* call issued is dropped, every similarity_search returns the empty sequence
\* and the store does not change; so it is for ever when the embedding call
\* never settles
C20_UnsettledHoldsFlag ==
    /\ [](InFlight # {} => isProcessing)
    /\ [][\A c \in Calls :
             (calls[c].pc = "await" /\ calls'[c] = calls[c]) =>
                /\ isProcessing'
                /\ documents' = documents
                /\ \A d \in Calls :
                      (calls[d].pc = "idle" /\ calls'[d].pc # "idle") => calls'[d].pc = "dropped"
                /\ ret'.called => ret'.result = << >>
         ]_vars

\* call 1 still waits for an embedding call; calls 2 and 3 were dropped, and a
\* search for the embedding of a stored entry returned nothing
C20_Witness ==
    /\ calls[1].pc = "await"
    /\ calls[2].pc = "dropped"
    /\ calls[3].pc = "dropped"
    /\ ret.called
    /\ ret.result = << >>
    /\ \E i \in 1..Len(documents) : documents[i].embedding = ret.q

\* ------------------------------------------------- vectors no search returns

\* the vector has zero magnitude
IsZero(v) == \A i \in 1..Len(v) : v[i] = 0

\* C21: when the query or an entry's embedding has zero magnitude,
\* cosineSimilarity of the two is the number 0, with nothing divided by zero,
\* and similarity_search does not return the entry
C21_ZeroMagnitudeIsZero ==
    ret.called =>
        \A i \in 1..Len(documents) :
            (IsZero(ret.q) \/ IsZero(documents[i].embedding)) =>
                /\ cosineSimilarity(ret.q, documents[i].embedding).num = 0
                /\ cosineSimilarity(ret.q, documents[i].embedding).den > 0
                /\ ~Returned(documents[i].text)

\* a search that k did not cut short returned the other two entries of a
\* store that is not busy and left out the one whose embedding is all zero
C21_Witness ==
    /\ ret.called
    /\ ~isProcessing
    /\ ret.k = Len(documents)
    /\ Len(documents) = 3
    /\ IsZero(documents[2].embedding)
    /\ ret.result = <<documents[1].text, documents[3].text>>

\* the entries whose embedding has the length of q, in their order
SameLength(q) == SelectSeq(documents, LAMBDA doc : Len(doc.embedding) = Len(q))

\* C22: an entry whose embedding has another length than the query has
\* similarity 0 and is not returned, and the search returns what it returns
\* from the entries of the query's length alone (k >= 0, as C8 and C9 ask)
C22_LengthMismatchIsZero ==
    ret.called =>
        /\ \A i \in 1..Len(documents) :
              Len(documents[i].embedding) # Len(ret.q) =>
                 /\ cosineSimilarity(ret.q, documents[i].embedding).num = 0
                 /\ ~Returned(documents[i].text)
        /\ ret.k >= 0 =>
              ret.result = similarity_search(SameLength(ret.q), isProcessing, ret.q, ret.k)

\* a query of four numbers on a store whose first entry has an embedding of
\* one number: the other two entries were returned
C22_Witness ==
    /\ ret.called
    /\ ~isProcessing
    /\ Len(ret.q) = 4
    /\ ret.k = 2
    /\ Len(documents) = 3
    /\ Len(documents[1].embedding) = 1
    /\ Len(ret.result) = 2
    /\ Returned(documents[2].text)
    /\ Returned(documents[3].text)

\* ------------------------------------------------- the topic suggestion race

\* C24: when the 30-second timer of a topic-suggestion request fires and the
\* request has not settled, the operation ends as a failure: the time-out
\* message set, no suggestions, the loading flag cleared; and a result that
\* arrives after its timer fired changes neither the suggestions nor anything
\* else shown
C24_TimeoutWinsRace ==
    [][\A h \in 1..NumFocus :
          LET before == controls.focus[h]
              after == controls'.focus[h]
          IN  /\ (before.timer = "armed" /\ after.timer = "fired" /\ before.request = "pending")
                    => /\ controls'.error = "Request timed out after 30 seconds."
                       /\ controls'.suggestions = << >>
                       /\ ~controls'.loading
                       /\ after.pc = "returned"
              /\ (before.timer = "fired" /\ before.request = "pending" /\ after.request # "pending")
                    => /\ controls'.suggestions = controls.suggestions
                       /\ controls'.fetched = controls.fetched
                       /\ controls'.error = controls.error
                       /\ controls'.loading = controls.loading
      ]_vars

\* the one request made timed out and then resolved: the time-out message
\* stands and there are no suggestions
C24_Witness ==
    /\ controls.focus[1].timer = "fired"
    /\ controls.focus[1].request = "resolved"
    /\ controls.focus[2].pc = "idle"
    /\ controls.error = "Request timed out after 30 seconds."
    /\ controls.suggestions = << >>
    /\ ~controls.loading

\* ------------------------------------------------------ the flag and the drop

\* C25: a dropped add_documents call leaves the busy flag true and the entries
\* as they were, the call in flight still in flight; and the busy flag is true
\* exactly while one accepted call is in flight
C25_DropKeepsFlag ==
    /\ [](isProcessing <=> Cardinality(InFlight) = 1)
    /\ [][\A c \in Calls :
             (calls[c].pc = "idle" /\ calls'[c].pc = "dropped") =>
                /\ isProcessing
                /\ isProcessing'
                /\ documents' = documents
                /\ InFlight # {}
                /\ InFlight' = InFlight
         ]_vars

\* call 3 was dropped while call 2, accepted after call 1 returned, is in
\* flight: the flag is still true
C25_Witness ==
    /\ calls[1].pc = "returned"
    /\ calls[2].pc = "await"
    /\ calls[3].pc = "dropped"
    /\ isProcessing
    /\ Len(documents) = 1

\* ------------------------------------------------- a failed chunk, once more

\* C28: an embedding call that fails leaves the store as it was, the chunk not
\* stored (an embedding call that succeeds appends the chunk with the
\* embedding it returned); and an accepted call issues its first embedding
\* call for the first of its chunks whose text is not stored, whatever failed
\* before, so a chunk that failed in an earlier call is embedded again
C28_FailedChunkEmbeddedAgain ==
    [][\A c \in Calls :
          /\ (calls[c].pc = "await" /\ calls'[c] # calls[c]) =>
                \/ documents' = documents /\ ~Stored(PendingChunk(c))
                \/ \E emb \in StubEmbeddings :
                      documents' = Append(documents,
                                          [text |-> PendingChunk(c), embedding |-> emb])
          /\ (calls[c].pc = "idle" /\ calls'[c].pc = "await") =>
                LET texts == calls'[c].texts
                    at == <<calls'[c].ti, calls'[c].ci>>
                IN  /\ ~Stored(ChunkAt(texts, at))
                    /\ \A p \in Positions(texts) :
                          Before(p, at) => Stored(ChunkAt(texts, p))
      ]_vars

\* call 1 stored the last chunk of LongText and not the first, whose
\* embedding call therefore failed; call 2, accepted with LongText, waits for
\* a new embedding call of that first chunk
C28_Witness ==
    /\ calls[1].pc = "returned"
    /\ StoredTexts = <<TailChunk>>
    /\ calls[2].pc = "await"
    /\ calls[2].texts = <<LongText>>
    /\ PendingChunk(2) = HeadChunk

\* ------------------------------------------------------ the order of appends

\* C29: what an accepted call appends it appends in processing order, after
\* the entries that were there: each append puts the chunk the call is at
\* behind every entry of the store, and the call then moves to a later chunk
\* of the same text or to a chunk of a later text of its list
C29_AppendsInProcessingOrder ==
    [][\A c \in Calls :
          (calls[c].pc = "await" /\ documents' # documents) =>
             /\ Len(documents') = Len(documents) + 1
             /\ SubSeq(documents', 1, Len(documents)) = documents
             /\ documents'[Len(documents')].text =
                   ChunkAt(calls[c].texts, <<calls[c].ti, calls[c].ci>>)
             /\ calls'[c].pc = "await" =>
                   /\ calls'[c].texts = calls[c].texts
                   /\ Before(<<calls[c].ti, calls[c].ci>>, <<calls'[c].ti, calls'[c].ci>>)
      ]_vars

\* the only call made so far, add_documents([ShortText, LongText]), has
\* appended ShortText and then the first chunk of LongText, and is at the last
C29_Witness ==
    /\ calls[1].pc = "await"
    /\ calls[2].pc = "idle"
    /\ calls[1].texts = <<ShortText, LongText>>
    /\ PendingChunk(1) = TailChunk
    /\ StoredTexts = <<ShortText, HeadChunk>>

\* ------------------------------------------------ the threshold and the top k

\* result lists the texts of the first k of the entries whose similarity to q
\* exceeds 0.70, those taken in the order of ranking p
IsFilteredFirstK(result, p, q, k) ==
    LET above == SelectSeq(p, LAMBDA i : CosAbove70(q, documents[i].embedding))
        firstK == SubSeq(above, 1, Min(k, Len(above)))
    IN  result = [j \in 1..Len(firstK) |-> documents[firstK[j]].text]

\* C30: on a store that is not busy and for k >= 0, similarity_search returns
\* min(k, m) texts, m the number of entries whose similarity to the query
\* exceeds 0.70, and they are the first k of those entries in the order of
\* the ranking: the threshold applied before the cut gives what the cut
\* before the threshold gives
C30_MinOfKAndAbove ==
    (ret.called /\ ~isProcessing /\ ret.k >= 0) =>
        /\ Len(ret.result) = Min(ret.k, Cardinality(Above70(ret.q)))
        /\ \E p \in RankingsBySimilarity(ret.q) :
              /\ IsFilteredFirstK(ret.result, p, ret.q, ret.k)
              /\ IsTopKAbove70(ret.result, p, ret.q, ret.k)

\* three entries exceed 0.70, not all with the same similarity, and k = 2: two
\* texts were returned
C30_Witness ==
    /\ ret.called
    /\ ~isProcessing
    /\ ret.k = 2
    /\ Len(documents) = 3
    /\ Cardinality(Above70(ret.q)) = 3
    /\ \E i, j \in 1..3 : ~CosGeq(ret.q, documents[i].embedding, documents[j].embedding)
    /\ Len(ret.result) = 2

====
